---- MODULE Spec2Model ----
(***************************************************************************)
(* A model of the NBT decoder of src/src/lib.rs.                           *)
(*                                                                         *)
(* The decoder is a set of mutually recursive `combine` parsers run over   *)
(* a resettable byte stream.  Every parser is modelled twice:              *)
(*   - as an operator  p(inp, pos)  giving the parser's result on the      *)
(*     bytes inp read from offset pos (the "big-step" reading), and        *)
(*   - as the steps of a machine with an explicit continuation stack that  *)
(*     performs one parser call or one loop iteration per action.          *)
(* The two readings are tied together by the invariant StepsAgree.         *)
(*                                                                         *)
(* A parser result is a record                                             *)
(*    [k |-> "COk" | "EOk" | "CErr" | "EErr" | "Panic", v, pos, e]         *)
(* following combine's ConsumedOk / EmptyOk / ConsumedErr / EmptyErr; the  *)
(* fifth outcome is a Rust panic (the unwrap() of line 75).  pos is the    *)
(* stream position the parser leaves behind; after an EmptyErr the         *)
(* enclosing choice / many / count resets the stream to its checkpoint.    *)
(*                                                                         *)
(* Bytes are integers 0..255; the stream is a sequence of bytes and        *)
(* positions count the bytes already consumed.  TLC's integers are 32 bit  *)
(* wide, so a 64-bit value (i64, f64) and an f32 are kept as their         *)
(* big-endian base-256 digits, and a usize as four base-65536 limbs.       *)
(***************************************************************************)
EXTENDS Integers, Sequences, FiniteSets, TLC

(***************************************************************************)
(* Parser results                                                          *)
(***************************************************************************)
NoErr == [kind |-> "none", tok |-> -1]

EndOfInput == [kind |-> "EndOfInput", tok |-> -1]

Unexpected(b) == [kind |-> "Unexpected", tok |-> b]

ConsumedOk(v, p) == [k |-> "COk", v |-> v, pos |-> p, e |-> NoErr]

EmptyOk(v, p) == [k |-> "EOk", v |-> v, pos |-> p, e |-> NoErr]

\* The value of a result that is no success.
NoValue == [tag |-> "none", val |-> 0]

ConsumedErr(e, p) == [k |-> "CErr", v |-> NoValue, pos |-> p, e |-> e]

EmptyErr(e, p) == [k |-> "EErr", v |-> NoValue, pos |-> p, e |-> e]

Panicked(p) == [k |-> "Panic", v |-> NoValue, pos |-> p, e |-> [kind |-> "FromUtf8Error", tok |-> -1]]

IsOk(r) == r.k \in {"COk", "EOk"}

\* A sequence of parsers: once an earlier one has consumed input, an
\* EmptyErr of a later one is a ConsumedErr of the sequence.
Commit(r) == IF r.k = "EErr" THEN ConsumedErr(r.e, r.pos) ELSE r

\* The result of a parser that follows a parser which consumed input.
AfterConsumed(r) ==
    CASE r.k = "EOk"  -> ConsumedOk(r.v, r.pos)
      [] r.k = "EErr" -> ConsumedErr(r.e, r.pos)
      [] OTHER        -> r

(***************************************************************************)
(* The decoded tree                                                        *)
(***************************************************************************)
Tag(t, v) == [tag |-> t, val |-> v]

End == Tag("End", 0)

NamedTag(n, c) == [name |-> n, content |-> c]

(***************************************************************************)
(* usize: `length as usize` and the counter of Iterator::take              *)
(***************************************************************************)
\* u16 as usize: zero extension.
usize_of_u16(v) == <<0, 0, 0, v>>

\* i32 as usize on a 64-bit target: sign extension, so -1 is 2^64 - 1.
usize_of_i32(v) ==
    IF v >= 0
    THEN <<0, 0, v \div 65536, v % 65536>>
    ELSE LET w == (v + 2147483647) + 1
         IN  <<65535, 65535, 32768 + (w \div 65536), w % 65536>>

usize_is_zero(n) == n = <<0, 0, 0, 0>>

\* n - 1 for n > 0.
usize_dec(n) ==
    CASE n[4] > 0 -> <<n[1], n[2], n[3], n[4] - 1>>
      [] n[3] > 0 -> <<n[1], n[2], n[3] - 1, 65535>>
      [] n[2] > 0 -> <<n[1], n[2] - 1, 65535, 65535>>
      [] OTHER    -> <<n[1] - 1, 65535, 65535, 65535>>

(***************************************************************************)
(* Primitive parsers                                                       *)
(***************************************************************************)
\* combine::any over the stream: one byte, EmptyErr at end of input.
any(inp, p) ==
    IF p < Len(inp) THEN ConsumedOk(inp[p + 1], p + 1)
    ELSE EmptyErr(EndOfInput, p)

\* combine::parser::byte::byte(b): satisfy; a mismatch has read the byte
\* and reports EmptyErr.
byte(b, inp, p) ==
    IF p >= Len(inp) THEN EmptyErr(EndOfInput, p)
    ELSE IF inp[p + 1] = b THEN ConsumedOk(b, p + 1)
    ELSE EmptyErr(Unexpected(inp[p + 1]), p + 1)

\* The n bytes a fixed-width big-endian number parser reads: each byte is
\* read with uncons, and end of input at any of them is an EmptyErr.
be_bytes(n, inp, p) ==
    IF p + n <= Len(inp) THEN ConsumedOk(SubSeq(inp, p + 1, p + n), p + n)
    ELSE EmptyErr(EndOfInput, Len(inp))

be_u16(inp, p) ==
    LET r == be_bytes(2, inp, p)
    IN  IF IsOk(r) THEN ConsumedOk(r.v[1] * 256 + r.v[2], r.pos) ELSE r

\* mem::transmute::<u8, i8>
u8_as_i8(b) == IF b >= 128 THEN b - 256 ELSE b

be_i16(inp, p) ==
    LET r == be_bytes(2, inp, p)
    IN  IF IsOk(r)
        THEN ConsumedOk(u8_as_i8(r.v[1]) * 256 + r.v[2], r.pos)
        ELSE r

be_i32(inp, p) ==
    LET r == be_bytes(4, inp, p)
    IN  IF IsOk(r)
        THEN ConsumedOk(u8_as_i8(r.v[1]) * 16777216 + r.v[2] * 65536
                          + r.v[3] * 256 + r.v[4], r.pos)
        ELSE r

\* The 64-bit value as its 8 big-endian two's-complement digits.
be_i64(inp, p) == be_bytes(8, inp, p)

\* The IEEE-754 bit pattern as its big-endian digits.
be_f32(inp, p) == be_bytes(4, inp, p)

be_f64(inp, p) == be_bytes(8, inp, p)

i8(inp, p) ==
    LET r == any(inp, p)
    IN  IF IsOk(r) THEN ConsumedOk(u8_as_i8(r.v), r.pos) ELSE r

(***************************************************************************)
(* String::from_utf8: well-formed UTF-8 (Unicode table 3-7)                *)
(***************************************************************************)
IsCont(s, i) == i <= Len(s) /\ s[i] >= 128 /\ s[i] <= 191

RECURSIVE utf8_valid_from(_, _)
utf8_valid_from(s, i) ==
    IF i > Len(s) THEN TRUE
    ELSE LET b == s[i] IN
      CASE b <= 127 -> utf8_valid_from(s, i + 1)
        [] b >= 194 /\ b <= 223 ->
             IsCont(s, i + 1) /\ utf8_valid_from(s, i + 2)
        [] b >= 224 /\ b <= 239 ->
             /\ IsCont(s, i + 1) /\ IsCont(s, i + 2)
             /\ (b = 224 => s[i + 1] >= 160)
             /\ (b = 237 => s[i + 1] <= 159)
             /\ utf8_valid_from(s, i + 3)
        [] b >= 240 /\ b <= 244 ->
             /\ IsCont(s, i + 1) /\ IsCont(s, i + 2) /\ IsCont(s, i + 3)
             /\ (b = 240 => s[i + 1] >= 144)
             /\ (b = 244 => s[i + 1] <= 143)
             /\ utf8_valid_from(s, i + 4)
        [] OTHER -> FALSE

from_utf8_is_ok(s) == utf8_valid_from(s, 1)

(***************************************************************************)
(* The parsers of lib.rs, as functions of the input and the position       *)
(***************************************************************************)
\* The element parsers that `count` is used with: any() in name, i8() in
\* bytearray_tag, the closure over tag_id in list_tag.
AnyElem == [p |-> "any", tag_id |-> 0]

I8Elem == [p |-> "i8", tag_id |-> 0]

ListElem(tag_id) == [p |-> "list_element", tag_id |-> tag_id]

RECURSIVE count(_, _, _, _, _, _)
RECURSIVE many_named_tag(_, _, _, _)
RECURSIVE list_element(_, _, _)
RECURSIVE list_tag(_, _)
RECURSIVE compound_tag(_, _)
RECURSIVE named_tag_alt(_, _, _)
RECURSIVE named_tag(_, _)

\* end_tag(): byte(0) mapped to the End tag with the empty name.
end_tag(inp, p) ==
    LET r == byte(0, inp, p)
    IN  IF IsOk(r) THEN ConsumedOk(NamedTag(<<>>, End), r.pos) ELSE r

\* simple_number_tag!: the number parser mapped to its variant.
number_tag(variant, r) ==
    IF IsOk(r) THEN ConsumedOk(Tag(variant, r.v), r.pos) ELSE r

byte_tag(inp, p) == number_tag("Byte", i8(inp, p))

short_tag(inp, p) == number_tag("Short", be_i16(inp, p))

int_tag(inp, p) == number_tag("Int", be_i32(inp, p))

long_tag(inp, p) == number_tag("Long", be_i64(inp, p))

float_tag(inp, p) == number_tag("Float", be_f32(inp, p))

double_tag(inp, p) == number_tag("Double", be_f64(inp, p))

\* One parse of an element parser of `count`.
parse_elem(elem, inp, p) ==
    CASE elem.p = "any" -> any(inp, p)
      [] elem.p = "i8"  -> i8(inp, p)
      [] OTHER          -> list_element(elem.tag_id, inp, p)

\* combine::count(n, parser): the parser from zero up to n times.  The
\* iterator is taken n times at most; an EmptyErr of the parser resets the
\* stream to the checkpoint taken before it and ends the iteration without
\* an error; a ConsumedErr is the error of the whole.
count(n, elem, inp, p, acc, consumed) ==
    IF usize_is_zero(n)
    THEN (IF consumed THEN ConsumedOk(acc, p) ELSE EmptyOk(acc, p))
    ELSE LET r == parse_elem(elem, inp, p) IN
      CASE r.k = "COk"  ->
             count(usize_dec(n), elem, inp, r.pos, Append(acc, r.v), TRUE)
        [] r.k = "EOk"  ->
             count(usize_dec(n), elem, inp, r.pos, Append(acc, r.v), consumed)
        [] r.k = "EErr" ->
             (IF consumed THEN ConsumedOk(acc, p) ELSE EmptyOk(acc, p))
        [] OTHER        -> r

\* name(): be_u16, then count(length as usize, any()), then
\* String::from_utf8(contents).unwrap().
name(inp, p) ==
    LET l == be_u16(inp, p) IN
    IF ~IsOk(l) THEN l
    ELSE LET c == AfterConsumed(count(usize_of_u16(l.v), AnyElem, inp, l.pos, <<>>, FALSE))
         IN  IF ~IsOk(c) THEN c
             ELSE IF from_utf8_is_ok(c.v) THEN ConsumedOk(c.v, c.pos)
             ELSE Panicked(c.pos)

\* bytearray_tag(): be_i32, then count(length as usize, i8()).
bytearray_tag(inp, p) ==
    LET l == be_i32(inp, p) IN
    IF ~IsOk(l) THEN l
    ELSE LET c == AfterConsumed(count(usize_of_i32(l.v), I8Elem, inp, l.pos, <<>>, FALSE))
         IN  IF IsOk(c) THEN ConsumedOk(Tag("ByteArray", c.v), c.pos) ELSE c

\* string_tag(): name() mapped to the String variant.
string_tag(inp, p) ==
    LET r == name(inp, p)
    IN  IF IsOk(r) THEN ConsumedOk(Tag("String", r.v), r.pos) ELSE r

\* The arm of tag_id 0: end_tag() mapped to its content.
end_element(inp, p) ==
    LET r == end_tag(inp, p)
    IN  IF IsOk(r) THEN ConsumedOk(r.v.content, r.pos) ELSE r

\* The arm of any other tag_id: unexpected(...) consumes nothing and
\* reports EmptyErr.
invalid_element(inp, p) ==
    EmptyErr([kind |-> "Invalid tagId on TAG_List", tok |-> -1], p)

\* The closure of list_tag: the match on tag_id (an i8).
list_element(tag_id, inp, p) ==
    CASE tag_id = 0  -> end_element(inp, p)
      [] tag_id = 1  -> byte_tag(inp, p)
      [] tag_id = 2  -> short_tag(inp, p)
      [] tag_id = 3  -> int_tag(inp, p)
      [] tag_id = 4  -> long_tag(inp, p)
      [] tag_id = 5  -> float_tag(inp, p)
      [] tag_id = 6  -> double_tag(inp, p)
      [] tag_id = 7  -> bytearray_tag(inp, p)
      [] tag_id = 8  -> string_tag(inp, p)
      [] tag_id = 9  -> list_tag(inp, p)
      [] tag_id = 10 -> compound_tag(inp, p)
      [] OTHER       -> invalid_element(inp, p)

\* list_tag(): i8().and(be_i32()), then count(length as usize, closure).
list_tag(inp, p) ==
    LET t == i8(inp, p) IN
    IF ~IsOk(t) THEN t
    ELSE LET l == Commit(be_i32(inp, t.pos)) IN
      IF ~IsOk(l) THEN l
      ELSE LET c == AfterConsumed(count(usize_of_i32(l.v), ListElem(t.v),
                                        inp, l.pos, <<>>, FALSE))
           IN  IF IsOk(c) THEN ConsumedOk(Tag("List", c.v), c.pos) ELSE c

\* The many(...) of compound_tag: named_tag() repeated; a named tag whose
\* content is End is turned into an EmptyErr (unexpected), which ends the
\* iteration and resets the stream to before that tag.
many_named_tag(inp, p, acc, consumed) ==
    LET r == named_tag(inp, p) IN
      CASE IsOk(r) /\ r.v.content.tag # "End" ->
             many_named_tag(inp, r.pos, Append(acc, r.v), TRUE)
        [] IsOk(r) \/ r.k = "EErr" ->
             (IF consumed THEN ConsumedOk(acc, p) ELSE EmptyOk(acc, p))
        [] OTHER -> r

\* compound_tag(): many(...).skip(end_tag()).
compound_tag(inp, p) ==
    LET m == many_named_tag(inp, p, <<>>, FALSE) IN
    IF ~IsOk(m) THEN m
    ELSE LET z == end_tag(inp, m.pos)
             r == IF m.k = "COk" THEN AfterConsumed(z) ELSE z
         IN  IF IsOk(r) THEN ConsumedOk(Tag("Compound", m.v), r.pos) ELSE r

\* The payload parser of the alternative do_it!(num => parser).
named_payload(num, inp, p) ==
    CASE num = 1  -> byte_tag(inp, p)
      [] num = 2  -> short_tag(inp, p)
      [] num = 3  -> int_tag(inp, p)
      [] num = 4  -> long_tag(inp, p)
      [] num = 5  -> float_tag(inp, p)
      [] num = 6  -> double_tag(inp, p)
      [] num = 7  -> bytearray_tag(inp, p)
      [] num = 8  -> string_tag(inp, p)
      [] num = 9  -> list_tag(inp, p)
      [] OTHER    -> compound_tag(inp, p)

\* do_it!(num => parser): byte(num).with(name()).and(parser).
do_it(num, inp, p) ==
    LET b == byte(num, inp, p) IN
    IF ~IsOk(b) THEN b
    ELSE LET n == Commit(name(inp, b.pos)) IN
      IF ~IsOk(n) THEN n
      ELSE LET c == AfterConsumed(named_payload(num, inp, n.pos))
           IN  IF IsOk(c) THEN ConsumedOk(NamedTag(n.v, c.v), c.pos) ELSE c

\* The alternatives of choice! from the num-th on: an EmptyErr resets the
\* stream and tries the next one; when all fail the error is an EmptyErr.
named_tag_alt(num, inp, p) ==
    LET r == IF num = 0 THEN end_tag(inp, p) ELSE do_it(num, inp, p) IN
    IF r.k = "EErr" /\ num < 10 THEN named_tag_alt(num + 1, inp, p) ELSE r

named_tag(inp, p) == named_tag_alt(0, inp, p)

\* decode_uncompressed: one named tag from the start of the stream; the
\* parse error is returned with `?`, a panic unwinds through the call.
decode_result(r) ==
    CASE IsOk(r)       -> [status |-> "Ok", tag |-> r.v]
      [] r.k = "Panic" -> [status |-> "Panic", err |-> r.e]
      [] OTHER         -> [status |-> "Err", err |-> r.e]

decode_uncompressed(inp) == decode_result(named_tag(inp, 0))

(***************************************************************************)
(* The binary layout of the format: the encoding of a tree                 *)
(***************************************************************************)
type_id(t) ==
    CASE t.tag = "End"       -> 0
      [] t.tag = "Byte"      -> 1
      [] t.tag = "Short"     -> 2
      [] t.tag = "Int"       -> 3
      [] t.tag = "Long"      -> 4
      [] t.tag = "Float"     -> 5
      [] t.tag = "Double"    -> 6
      [] t.tag = "ByteArray" -> 7
      [] t.tag = "String"    -> 8
      [] t.tag = "List"      -> 9
      [] t.tag = "Compound"  -> 10

enc_i8(v) == <<(v + 256) % 256>>

enc_u16(v) == <<v \div 256, v % 256>>

enc_i16(v) == enc_u16((v + 65536) % 65536)

enc_i32(v) ==
    LET hi == IF v >= 0 THEN v \div 16777216
              ELSE 128 + (((v + 2147483647) + 1) \div 16777216)
        lo == IF v >= 0 THEN v % 16777216
              ELSE ((v + 2147483647) + 1) % 16777216
    IN  <<hi, lo \div 65536, (lo \div 256) % 256, lo % 256>>

RECURSIVE Flatten(_)
Flatten(ss) == IF ss = <<>> THEN <<>> ELSE Head(ss) \o Flatten(Tail(ss))

RECURSIVE encode_payload(_)
RECURSIVE encode_named(_)

\* A list's element type id is that of its elements, 0 for the empty list.
encode_payload(t) ==
    CASE t.tag = "End"       -> <<>>
      [] t.tag = "Byte"      -> enc_i8(t.val)
      [] t.tag = "Short"     -> enc_i16(t.val)
      [] t.tag = "Int"       -> enc_i32(t.val)
      [] t.tag \in {"Long", "Float", "Double"} -> t.val
      [] t.tag = "ByteArray" ->
           enc_i32(Len(t.val)) \o Flatten([i \in 1..Len(t.val) |-> enc_i8(t.val[i])])
      [] t.tag = "String"    -> enc_u16(Len(t.val)) \o t.val
      [] t.tag = "List"      ->
           <<IF t.val = <<>> THEN 0 ELSE type_id(t.val[1])>>
             \o enc_i32(Len(t.val))
             \o Flatten([i \in 1..Len(t.val) |-> encode_payload(t.val[i])])
      [] t.tag = "Compound"  ->
           Flatten([i \in 1..Len(t.val) |-> encode_named(t.val[i])]) \o <<0>>

encode_named(nt) ==
    IF nt.content.tag = "End" THEN <<0>>
    ELSE <<type_id(nt.content)>> \o enc_u16(Len(nt.name)) \o nt.name
           \o encode_payload(nt.content)

(***************************************************************************)
(* The inputs of the model                                                 *)
(***************************************************************************)
\* The longest list or compound among the trees the inputs are built from.
MaxElems == 2

SeqsUpTo(S, n) == UNION {[1..k -> S] : k \in 0..n}

Lists(S) == {Tag("List", s) : s \in SeqsUpTo(S, MaxElems)}

Compounds(S) == {Tag("Compound", s) : s \in SeqsUpTo(S, MaxElems)}

\* The values of each scalar, array and string variant.
LeafVals ==
    << {End},
       {Tag("Byte", -1), Tag("Byte", 5)},
       {Tag("Short", -2)},
       {Tag("Int", 42)},
       {Tag("Long", <<0, 0, 0, 0, 0, 0, 1, 7>>)},
       {Tag("Float", <<63, 128, 0, 0>>)},
       {Tag("Double", <<192, 0, 0, 0, 0, 0, 0, 0>>)},
       {Tag("ByteArray", <<>>), Tag("ByteArray", <<1, -2>>)},
       {Tag("String", <<>>), Tag("String", <<195, 169>>)} >>

Leaves == UNION {LeafVals[i] : i \in 1..Len(LeafVals)}

\* Homogeneous lists of leaves, of every element type (End included).
LeafLists == UNION {Lists(LeafVals[i]) : i \in 1..Len(LeafVals)}

LeafMembers ==
    { NamedTag(<<120>>, Tag("Byte", 5)),
      NamedTag(<<>>, Tag("String", <<195, 169>>)),
      NamedTag(<<121>>, Tag("Int", 42)) }

LeafCompounds == Compounds(LeafMembers)

\* Lists of lists, lists of compounds, compounds of lists and compounds.
NestedLists ==
    Lists({Tag("List", <<>>), Tag("List", <<Tag("Byte", 5)>>), Tag("List", <<End>>)})
      \cup Lists({Tag("Compound", <<>>),
                  Tag("Compound", <<NamedTag(<<120>>, Tag("Byte", 5))>>)})

NestedCompounds ==
    Compounds({ NamedTag(<<120>>, Tag("List", <<Tag("Byte", 5)>>)),
                NamedTag(<<121>>, Tag("Compound", <<>>)),
                NamedTag(<<>>, Tag("List", <<>>)),
                NamedTag(<<122>>, Tag("Byte", 5)) })

Trees == Leaves \cup LeafLists \cup LeafCompounds \cup NestedLists \cup NestedCompounds

\* The root tags: End has the empty name.
Roots ==
    {NamedTag(<<>>, t) : t \in Trees}
      \cup {NamedTag(<<120>>, t) : t \in Leaves \ {End}}

\* Hand-made streams: the scenarios of the format's description and
\* streams with bytes after the root tag.
Fixtures ==
    { <<10, 0, 0, 0, 0>>,
      <<3, 0, 1, 120, 0, 0, 0, 42>>,
      <<7, 0, 0, 255, 255, 255, 255, 1, 200>>,
      <<8, 0, 0, 0, 5, 97, 98, 99>>,
      <<11, 0, 0, 0>>,
      <<9, 0, 0, 1, 0, 0, 0, 3, 5>>,
      <<9, 0, 0, 0, 0, 0, 0, 2, 0, 0, 0>>,
      <<9, 0, 0, 10, 0, 0, 0, 2, 0, 11>>,
      <<10, 0, 0, 9, 0, 0, 200, 0, 0, 0, 0, 1, 0, 0, 7, 0>> }

\* A compound holding a list of count 0 and a byte, for every value of the
\* list's element type id byte.
ListHeaders ==
    {<<10, 0, 0, 9, 0, 1, 108, id, 0, 0, 0, 0, 1, 0, 0, 7, 0>> : id \in 0..255}

Bases == {encode_named(r) : r \in Roots} \cup Fixtures

\* The bytes a byte of a base stream is replaced by.
Replacements == {0, 3, 11, 255}

Replace(s, i, b) == [s EXCEPT ![i] = b]

\* Every base stream, every prefix of one (a truncated stream) and every
\* base stream with one byte replaced.
Inputs ==
    UNION {{SubSeq(s, 1, l) : l \in 0..Len(s)} : s \in Bases}
      \cup UNION {{Replace(s, i, b) : i \in 1..Len(s), b \in Replacements} : s \in Bases}
      \cup ListHeaders

(***************************************************************************)
(* decode_uncompressed as a machine: one parser call, one loop iteration   *)
(* or one return per step, over a stack of the parsers awaiting a result   *)
(***************************************************************************)
VARIABLES
    input,      \* the bytes of the Read instance
    pos,        \* the position of the stream: the bytes consumed
    pc,         \* "call" | "loop" | "ret" | "done"
    cur,        \* the parser about to be run (pc = "call")
    stack,      \* the parsers awaiting a result, innermost last
    ret,        \* the result just returned (pc = "ret")
    outcome,    \* what decode_uncompressed returned (pc = "done")
    seen        \* history: what the decoder has met in the stream so far

vars == <<input, pos, pc, cur, stack, ret, outcome, seen>>

NoParser == "none"

NoResult == [k |-> "none", v |-> NoValue, pos |-> 0, e |-> NoErr]

\* The machine keeps an output that is no UnnamedTag and no NamedTag (a
\* u8, an i8, a Vec, a String) together with its Rust type.
Typed(t, r) == IF IsOk(r) THEN [r EXCEPT !.v = [tag |-> t, val |-> r.v]] ELSE r

\* The output itself.
Value(v) == IF v.tag \in {"u8", "i8", "Vec", "str"} THEN v.val ELSE v

Running == [status |-> "Running"]

Top == stack[Len(stack)]

Pop == SubSeq(stack, 1, Len(stack) - 1)

Push(fr) == Append(stack, fr)

SetTop(fr) == [stack EXCEPT ![Len(stack)] = fr]

\* The parsers that run to their result in one step.
LeafParsers ==
    {"any", "i8", "end_tag", "end_elem", "byte_tag", "short_tag", "int_tag",
     "long_tag", "float_tag", "double_tag", "invalid_elem"}

Leaf(parser, inp, p) ==
    CASE parser = "any"        -> Typed("u8", any(inp, p))
      [] parser = "i8"         -> Typed("i8", i8(inp, p))
      [] parser = "end_tag"    -> end_tag(inp, p)
      [] parser = "byte_tag"   -> byte_tag(inp, p)
      [] parser = "short_tag"  -> short_tag(inp, p)
      [] parser = "int_tag"    -> int_tag(inp, p)
      [] parser = "long_tag"   -> long_tag(inp, p)
      [] parser = "float_tag"  -> float_tag(inp, p)
      [] parser = "double_tag" -> double_tag(inp, p)
      [] parser = "end_elem"   -> end_element(inp, p)
      [] OTHER                 -> invalid_element(inp, p)

\* The parser the match of list_tag selects for tag_id.
ElemParser(tag_id) ==
    CASE tag_id = 0  -> "end_elem"
      [] tag_id = 1  -> "byte_tag"
      [] tag_id = 2  -> "short_tag"
      [] tag_id = 3  -> "int_tag"
      [] tag_id = 4  -> "long_tag"
      [] tag_id = 5  -> "float_tag"
      [] tag_id = 6  -> "double_tag"
      [] tag_id = 7  -> "bytearray_tag"
      [] tag_id = 8  -> "string_tag"
      [] tag_id = 9  -> "list_tag"
      [] tag_id = 10 -> "compound_tag"
      [] OTHER       -> "invalid_elem"

\* The parser an element parser of `count` stands for.
ParserOf(elem) ==
    IF elem.p = "list_element" THEN ElemParser(elem.tag_id) ELSE elem.p

\* The payload parser of do_it!(num => parser).
PayloadParser(num) ==
    CASE num = 1  -> "byte_tag"
      [] num = 2  -> "short_tag"
      [] num = 3  -> "int_tag"
      [] num = 4  -> "long_tag"
      [] num = 5  -> "float_tag"
      [] num = 6  -> "double_tag"
      [] num = 7  -> "bytearray_tag"
      [] num = 8  -> "string_tag"
      [] num = 9  -> "list_tag"
      [] OTHER    -> "compound_tag"

\* The state of a count(n, elem) whose iteration starts at position p.
CountFrame(n, elem, p) ==
    [f |-> "count", n |-> n, elem |-> elem, acc |-> <<>>, consumed |-> FALSE, before |-> p]

\* The closure of a then(|length| count(..)) and the map after it: the
\* declared length, and for list_tag the tag_id; start is where the parser
\* began and at is where the count loop began.
ThenFrame(f, tag_id, length, start, at) ==
    [f |-> f, tag_id |-> tag_id, length |-> length, start |-> start, at |-> at]

Event(ev, arg) == [ev |-> ev, arg |-> arg]

Saw(ev) == \E x \in seen : x.ev = ev

Init ==
    /\ input \in Inputs
    /\ pos = 0
    /\ pc = "call"
    /\ cur = "named_tag"
    /\ ret = NoResult
    /\ stack = <<>>
    /\ outcome = Running
    /\ seen = {}

\* A parser returns r.
Return(r) ==
    /\ pc' = "ret"
    /\ cur' = NoParser
    /\ pos' = r.pos
    /\ ret' = r

\* A parser calls parser q at position p.
Call(q, p) ==
    /\ pc' = "call"
    /\ cur' = q
    /\ pos' = p
    /\ ret' = NoResult

\* A loop (count, many) is about to take its next element at position p.
Loop(p) ==
    /\ pc' = "loop"
    /\ cur' = NoParser
    /\ pos' = p
    /\ ret' = NoResult

(***************************************************************************)
(* Calls                                                                   *)
(***************************************************************************)
\* A number parser, any(), i8(), end_tag() or an arm of list_tag's match
\* that is one of them.
CallLeaf ==
    /\ pc = "call" /\ cur \in LeafParsers
    /\ Return(Leaf(cur, input, pos))
    /\ UNCHANGED <<input, stack, outcome, seen>>

\* name(): be_u16, then the count(length as usize, any()) loop.
CallName ==
    /\ pc = "call" /\ cur = "name"
    /\ LET l == be_u16(input, pos) IN
         IF IsOk(l)
         THEN /\ Loop(l.pos)
              /\ stack' = Append(Push(ThenFrame("name_map", 0, l.v, pos, l.pos)),
                                 CountFrame(usize_of_u16(l.v), AnyElem, l.pos))
              /\ seen' = IF l.v > Len(input) - l.pos
                         THEN seen \cup {Event("short_field", l.v)} ELSE seen
         ELSE /\ stack' = stack
              /\ Return(l)
              /\ seen' = seen
    /\ UNCHANGED <<input, outcome>>

\* bytearray_tag(): be_i32, then the count(length as usize, i8()) loop.
CallByteArray ==
    /\ pc = "call" /\ cur = "bytearray_tag"
    /\ LET l == be_i32(input, pos) IN
         IF IsOk(l)
         THEN /\ Loop(l.pos)
              /\ stack' = Append(Push(ThenFrame("bytearray_map", 0, l.v, pos, l.pos)),
                                 CountFrame(usize_of_i32(l.v), I8Elem, l.pos))
              /\ seen' = CASE l.v < 0 -> seen \cup {Event("negative_length", l.v)}
                           [] l.v > Len(input) - l.pos ->
                                seen \cup {Event("short_field", l.v)}
                           [] OTHER -> seen
         ELSE /\ stack' = stack
              /\ Return(l)
              /\ seen' = seen
    /\ UNCHANGED <<input, outcome>>

\* string_tag(): name(), mapped.
CallString ==
    /\ pc = "call" /\ cur = "string_tag"
    /\ Call("name", pos)
    /\ stack' = Push([f |-> "string_map"])
    /\ UNCHANGED <<input, outcome, seen>>

\* A list_tag() that looks at the element type id before the loop, and
\* fails on an id that is no type id even when the list declares no element.
CallList_ChecksIdFirst ==
    /\ pc = "call" /\ cur = "list_tag"
    /\ LET t == i8(input, pos)
           l == IF IsOk(t) THEN Commit(be_i32(input, t.pos)) ELSE t
       IN  IF IsOk(l) /\ t.v \in 0..10
           THEN /\ Loop(l.pos)
                /\ stack' = Append(Push(ThenFrame("list_map", t.v, l.v, pos, l.pos)),
                                   CountFrame(usize_of_i32(l.v), ListElem(t.v), l.pos))
           ELSE /\ stack' = stack
                /\ Return(IF IsOk(l) THEN ConsumedErr(Unexpected(input[pos + 1]), l.pos)
                          ELSE l)
    /\ UNCHANGED <<input, outcome, seen>>

\* list_tag(): i8().and(be_i32()), then the count(length as usize, ...) loop.
CallList ==
    /\ pc = "call" /\ cur = "list_tag"
    /\ LET t == i8(input, pos)
           l == IF IsOk(t) THEN Commit(be_i32(input, t.pos)) ELSE t
       IN  IF IsOk(l)
           THEN /\ Loop(l.pos)
                /\ stack' = Append(Push(ThenFrame("list_map", t.v, l.v, pos, l.pos)),
                                   CountFrame(usize_of_i32(l.v), ListElem(t.v), l.pos))
                /\ seen' = IF l.v < 0 THEN seen \cup {Event("negative_length", l.v)}
                           ELSE seen
           ELSE /\ stack' = stack
                /\ Return(l)
                /\ seen' = seen
    /\ UNCHANGED <<input, outcome>>

\* compound_tag(): the many(...) loop starts with nothing accumulated.
CallCompound ==
    /\ pc = "call" /\ cur = "compound_tag"
    /\ Loop(pos)
    /\ stack' = Push([f |-> "many", acc |-> <<>>, consumed |-> FALSE, before |-> pos])
    /\ UNCHANGED <<input, outcome, seen>>

\* named_tag(): the choice on the type id byte.  end_tag() is complete
\* with that byte; do_it!(num => ...) goes on with name(); when the byte
\* of no alternative matches (or there is none) the choice is an EmptyErr.
CallNamed ==
    /\ pc = "call" /\ cur = "named_tag"
    /\ LET z == end_tag(input, pos) IN
         IF z.k # "EErr"
         THEN /\ stack' = stack
              /\ Return(z)
              /\ seen' = seen
         ELSE IF \E num \in 1..10 : IsOk(byte(num, input, pos))
         THEN /\ Call("name", pos + 1)
              /\ stack' = Push([f |-> "do_it_name", num |-> input[pos + 1]])
              /\ seen' = seen
         ELSE /\ stack' = stack
              /\ Return(byte(10, input, pos))
              /\ seen' = IF pos < Len(input)
                         THEN seen \cup {Event("unknown_type_id", input[pos + 1])}
                         ELSE seen
    /\ UNCHANGED <<input, outcome>>

(***************************************************************************)
(* Loops                                                                   *)
(***************************************************************************)
\* Iterator::take of count: when the counter is zero the loop is over,
\* otherwise the counter is decremented and the element parser is run
\* from a new checkpoint.
LoopCount ==
    /\ pc = "loop" /\ Top.f = "count"
    /\ IF usize_is_zero(Top.n)
       THEN /\ stack' = Pop
            /\ Return(Typed("Vec", IF Top.consumed THEN ConsumedOk(Top.acc, pos)
                                    ELSE EmptyOk(Top.acc, pos)))
            /\ seen' = seen
       ELSE /\ Call(ParserOf(Top.elem), pos)
            /\ stack' = SetTop([Top EXCEPT !.n = usize_dec(Top.n), !.before = pos])
            /\ seen' = IF ParserOf(Top.elem) = "invalid_elem"
                       THEN seen \cup {Event("unknown_type_id", Top.elem.tag_id)}
                       ELSE seen
    /\ UNCHANGED <<input, outcome>>

\* The element parser of a count loop has returned.
RetCount ==
    /\ pc = "ret" /\ stack # <<>> /\ Top.f = "count"
    /\ CASE IsOk(ret) ->
              /\ Loop(pos)
              /\ stack' = SetTop([Top EXCEPT !.acc = Append(Top.acc, Value(ret.v)),
                                             !.consumed = Top.consumed \/ ret.k = "COk"])
         [] ret.k = "EErr" ->
              /\ stack' = Pop
              /\ Return(Typed("Vec", IF Top.consumed THEN ConsumedOk(Top.acc, Top.before)
                                      ELSE EmptyOk(Top.acc, Top.before)))
         [] OTHER ->
              /\ stack' = Pop
              /\ Return(ret)
    /\ UNCHANGED <<input, outcome, seen>>

\* The many loop of compound_tag runs named_tag() from a new checkpoint.
LoopMany ==
    /\ pc = "loop" /\ Top.f = "many"
    /\ Call("named_tag", pos)
    /\ stack' = SetTop([Top EXCEPT !.before = pos])
    /\ UNCHANGED <<input, outcome, seen>>

\* A many loop that keeps the End tag as a member and goes on.
RetMany_KeepsEnd ==
    /\ pc = "ret" /\ stack # <<>> /\ Top.f = "many"
    /\ CASE IsOk(ret) ->
              /\ Loop(pos)
              /\ stack' = SetTop([Top EXCEPT !.acc = Append(Top.acc, ret.v),
                                             !.consumed = TRUE])
         [] ret.k = "EErr" ->
              /\ Call("end_tag", Top.before)
              /\ stack' = SetTop([f |-> "skip_end", acc |-> Top.acc,
                                  consumed |-> Top.consumed])
         [] OTHER ->
              /\ stack' = Pop
              /\ Return(ret)
    /\ UNCHANGED <<input, outcome, seen>>

\* named_tag() has returned to the many loop.  A tag that is not End is
\* accumulated.  An End tag, or an EmptyErr, ends the loop: the stream is
\* reset to the checkpoint and skip(end_tag()) is run there.
RetMany ==
    /\ pc = "ret" /\ stack # <<>> /\ Top.f = "many"
    /\ CASE IsOk(ret) /\ ret.v.content.tag # "End" ->
              /\ Loop(pos)
              /\ stack' = SetTop([Top EXCEPT !.acc = Append(Top.acc, ret.v),
                                             !.consumed = TRUE])
         [] IsOk(ret) \/ ret.k = "EErr" ->
              /\ Call("end_tag", Top.before)
              /\ stack' = SetTop([f |-> "skip_end", acc |-> Top.acc,
                                  consumed |-> Top.consumed])
         [] OTHER ->
              /\ stack' = Pop
              /\ Return(ret)
    /\ UNCHANGED <<input, outcome, seen>>

(***************************************************************************)
(* Returns                                                                 *)
(***************************************************************************)
\* skip(end_tag()) has run: the compound is the accumulated sequence.
RetSkipEnd ==
    /\ pc = "ret" /\ stack # <<>> /\ Top.f = "skip_end"
    /\ stack' = Pop
    /\ LET r == IF Top.consumed THEN AfterConsumed(ret) ELSE ret IN
         Return(IF IsOk(r) THEN ConsumedOk(Tag("Compound", Top.acc), r.pos) ELSE r)
    /\ UNCHANGED <<input, outcome, seen>>

\* The count loop of name() has returned: String::from_utf8(..).unwrap().
\* An Err of from_utf8 panics, which unwinds out of decode_uncompressed.
RetNameMap ==
    /\ pc = "ret" /\ stack # <<>> /\ Top.f = "name_map"
    /\ IF from_utf8_is_ok(ret.v.val)
       THEN /\ stack' = Pop
            /\ Return(Typed("str", ConsumedOk(ret.v.val, pos)))
            /\ outcome' = outcome
            /\ seen' = seen
       ELSE /\ pc' = "done"
            /\ outcome' = decode_result(Panicked(pos))
            /\ stack' = <<>>
            /\ cur' = NoParser
            /\ ret' = NoResult
            /\ pos' = pos
            /\ seen' = seen \cup {Event("invalid_utf8", 0)}
    /\ UNCHANGED input

\* .map(UnnamedTag::String)
RetStringMap ==
    /\ pc = "ret" /\ stack # <<>> /\ Top.f = "string_map"
    /\ stack' = Pop
    /\ Return(IF IsOk(ret) THEN ConsumedOk(Tag("String", ret.v.val), pos) ELSE ret)
    /\ UNCHANGED <<input, outcome, seen>>

\* The count loop of bytearray_tag() has returned: .map(UnnamedTag::ByteArray)
RetByteArrayMap ==
    /\ pc = "ret" /\ stack # <<>> /\ Top.f = "bytearray_map"
    /\ stack' = Pop
    /\ LET r == AfterConsumed(ret) IN
         Return(IF IsOk(r) THEN ConsumedOk(Tag("ByteArray", r.v.val), pos) ELSE r)
    /\ UNCHANGED <<input, outcome, seen>>

\* The count loop of list_tag() has returned: .map(UnnamedTag::List)
RetListMap ==
    /\ pc = "ret" /\ stack # <<>> /\ Top.f = "list_map"
    /\ stack' = Pop
    /\ LET r == AfterConsumed(ret) IN
         Return(IF IsOk(r) THEN ConsumedOk(Tag("List", r.v.val), pos) ELSE r)
    /\ UNCHANGED <<input, outcome, seen>>

\* name() has returned to do_it!: the payload parser is next.
RetDoItName ==
    /\ pc = "ret" /\ stack # <<>> /\ Top.f = "do_it_name"
    /\ IF IsOk(ret)
       THEN /\ Call(PayloadParser(Top.num), pos)
            /\ stack' = SetTop([f |-> "do_it_payload", nm |-> ret.v.val])
       ELSE /\ stack' = Pop
            /\ Return(Commit(ret))
    /\ UNCHANGED <<input, outcome, seen>>

\* The payload parser has returned to do_it!: the NamedTag is built.
RetDoItPayload ==
    /\ pc = "ret" /\ stack # <<>> /\ Top.f = "do_it_payload"
    /\ stack' = Pop
    /\ LET r == AfterConsumed(ret) IN
         Return(IF IsOk(r) THEN ConsumedOk(NamedTag(Top.nm, r.v), pos) ELSE r)
    /\ UNCHANGED <<input, outcome, seen>>

\* The root named_tag() has returned to decode_uncompressed.
RetRoot ==
    /\ pc = "ret" /\ stack = <<>>
    /\ pc' = "done"
    /\ outcome' = decode_result(ret)
    /\ cur' = NoParser
    /\ ret' = NoResult
    /\ UNCHANGED <<input, pos, stack, seen>>

Next ==
    \/ CallLeaf \/ CallName \/ CallByteArray \/ CallString \/ CallList
    \/ CallCompound \/ CallNamed
    \/ LoopCount \/ RetCount \/ LoopMany \/ RetMany
    \/ RetSkipEnd \/ RetNameMap \/ RetStringMap \/ RetByteArrayMap \/ RetListMap
    \/ RetDoItName \/ RetDoItPayload \/ RetRoot

Spec == Init /\ [][Next]_vars

\* Where the call is: every step of Next changes it.
control == <<pc, cur, Len(stack)>>

\* decode_uncompressed is one synchronous call: it runs until it returns.
FairSpec == Spec /\ WF_control(Next)

\* The machine returns what the parsers, read as functions, return.
StepsAgree == pc = "done" => outcome = decode_uncompressed(input)

(***************************************************************************)
(* Properties                                                              *)
(***************************************************************************)
Done == pc = "done"

Succeeded == Done /\ outcome.status = "Ok"

Failed == Done /\ outcome.status = "Err"

\* The top of the stack is a frame of kind f awaiting the result in ret.
Returning(f) == pc = "ret" /\ stack # <<>> /\ Top.f = f

RECURSIVE HasEndList(_)
\* A list of one or more End elements occurs in the tree.
HasEndList(t) ==
    CASE t.tag = "List" ->
           \/ (t.val # <<>> /\ t.val[1].tag = "End")
           \/ \E i \in 1..Len(t.val) : HasEndList(t.val[i])
      [] t.tag = "Compound" ->
           \E i \in 1..Len(t.val) : HasEndList(t.val[i].content)
      [] OTHER -> FALSE

\* C1: for every tree of the bounded set Roots, decoding the layout
\* encoding of the tree as one root named tag returns exactly that tree,
\* and encoding the result again and decoding it returns the same tree.
C1_RoundTrip ==
    \A r \in Roots :
        (Done /\ input = encode_named(r)) =>
            /\ outcome = [status |-> "Ok", tag |-> r]
            /\ decode_uncompressed(encode_named(outcome.tag)) = outcome

\* What the decoder does keep of C1: the round trip of every tree in which
\* no list of End elements has an element.
RoundTripWithoutEndLists ==
    \A r \in Roots :
        (Done /\ input = encode_named(r) /\ ~HasEndList(r.content)) =>
            /\ outcome = [status |-> "Ok", tag |-> r]
            /\ decode_uncompressed(encode_named(outcome.tag)) = outcome

\* C2: whenever a tag name, a String payload or a ByteArray payload
\* declares a length L and fewer than L bytes remain, the whole decode
\* fails with the end-of-input error (TruncatedInput); it never succeeds
\* with a field of fewer than L bytes.
\* (Stated for the streams on which the decoder does not panic; the panic
\* on bytes that are not UTF-8 is the subject of C9.)
C2_NoShortRead ==
    (Done /\ Saw("short_field") /\ outcome.status # "Panic") =>
        (Failed /\ outcome.err = EndOfInput)

\* C3: whenever a ByteArray declares a negative length or a List a
\* negative element count, the whole decode fails: the negative value is
\* not reinterpreted as a large unsigned length, no byte or element is
\* read for it and no tree is returned.
C3_NegativeLengthFails ==
    (Done /\ Saw("negative_length")) => Failed

\* C4: whenever the dispatch on a type id meets an id outside 0..10 (the
\* type id byte of a named tag, or the element type id of a list of one
\* or more elements), the whole decode fails; no tree is returned and no
\* enclosing list or compound absorbs the failure.
C4_UnknownTagTypeFails ==
    (Done /\ Saw("unknown_type_id")) => Failed

\* C5: when a list of declared element type id t in 0..10 and count n >= 0
\* decodes, it has exactly n elements, each of the variant of t.
\* (Stated for t in 1..10; what the list site does with t = 0 is the
\* subject of C8.)
C5_ListHasDeclaredCount ==
    (Returning("list_map") /\ IsOk(ret) /\ Top.length >= 0 /\ Top.tag_id \in 1..10) =>
        /\ Len(ret.v.val) = Top.length
        /\ \A i \in 1..Len(ret.v.val) : type_id(ret.v.val[i]) = Top.tag_id

\* What the decoder does keep of C5: the elements of a decoded list are
\* all of the variant of its element type id, and never more than declared.
ListIsHomogeneous ==
    (Returning("list_map") /\ IsOk(ret) /\ Top.tag_id \in 0..10) =>
        /\ Top.length >= 0 => Len(ret.v.val) <= Top.length
        /\ \A i \in 1..Len(ret.v.val) : type_id(ret.v.val[i]) = Top.tag_id

RECURSIVE NoEndMember(_)
\* No compound of the tree holds a named tag whose content is End.
NoEndMember(t) ==
    CASE t.tag = "List" -> \A i \in 1..Len(t.val) : NoEndMember(t.val[i])
      [] t.tag = "Compound" ->
           \A i \in 1..Len(t.val) :
               t.val[i].content.tag # "End" /\ NoEndMember(t.val[i].content)
      [] OTHER -> TRUE

\* C6: compound decoding is the ACCUMULATING / TERMINATED machine.  Every
\* named tag that is not End is appended, in the order met; the first End
\* tag ends the loop and is not stored; the stream is put back before the
\* End byte, which is then consumed once, so that the compound returns at
\* the byte after the terminator; nothing is appended after termination;
\* no compound of a decoded tree holds an End tag.
C6_CompoundStateMachine ==
    [][ /\ (Returning("many") /\ IsOk(ret) /\ ret.v.content.tag # "End") =>
              /\ pc' = "loop" /\ Len(stack') = Len(stack) /\ Top'.f = "many"
              /\ Top'.acc = Append(Top.acc, ret.v)
              /\ pos' = pos
        /\ (Returning("many") /\ IsOk(ret) /\ ret.v.content.tag = "End") =>
              /\ pc' = "call" /\ cur' = "end_tag"
              /\ Len(stack') = Len(stack) /\ Top'.f = "skip_end"
              /\ Top'.acc = Top.acc
              /\ pos' = pos - 1 /\ input[pos] = 0
        /\ (pc = "call" /\ cur = "end_tag" /\ pos < Len(input) /\ input[pos + 1] = 0) =>
              /\ pos' = pos + 1 /\ IsOk(ret')
              /\ Len(stack') = Len(stack) /\ Top'.acc = Top.acc
        /\ (Returning("skip_end") /\ IsOk(ret)) =>
              /\ ret' = ConsumedOk(Tag("Compound", Top.acc), pos)
              /\ pos' = pos /\ input[pos] = 0
        /\ \A i \in 1..Len(stack) :
              stack[i].f \in {"many", "skip_end"} =>
                  \A j \in 1..Len(stack[i].acc) : stack[i].acc[j].content.tag # "End"
        /\ Succeeded' => NoEndMember(outcome'.tag.content)
      ]_vars

\* A compound of two members has met its End tag.
C6_Witness ==
    /\ Returning("many") /\ IsOk(ret) /\ ret.v.content.tag = "End"
    /\ Len(Top.acc) = 2

\* The header of a list that declares no element starts at position p.
EmptyListAt(p) ==
    p + 5 <= Len(input) /\ SubSeq(input, p + 2, p + 5) = <<0, 0, 0, 0>>

\* C7: whatever the element type id byte, a list whose declared count is 0
\* decodes to the empty sequence and consumes exactly 5 bytes, so that
\* the enclosing decoder resumes at the sixth byte.
C7_EmptyListTakesFiveBytes ==
    [][ /\ (pc = "call" /\ cur = "list_tag" /\ EmptyListAt(pos)) =>
              /\ list_tag(input, pos) = ConsumedOk(Tag("List", <<>>), pos + 5)
              /\ pc' = "loop" /\ pos' = pos + 5
              /\ Top'.f = "count" /\ usize_is_zero(Top'.n)
              /\ stack'[Len(stack') - 1].f = "list_map"
              /\ stack'[Len(stack') - 1].start = pos
        /\ (pc = "loop" /\ Top.f = "count" /\ Top.elem.p = "list_element"
              /\ stack[Len(stack) - 1].length = 0) =>
              /\ Top.acc = <<>>
              /\ ret' = Typed("Vec", EmptyOk(<<>>, pos)) /\ pos' = pos
              /\ pos = stack[Len(stack) - 1].start + 5
        /\ (Returning("list_map") /\ Top.length = 0) =>
              /\ ret' = ConsumedOk(Tag("List", <<>>), Top.start + 5)
              /\ pos' = Top.start + 5
      ]_vars

\* A list of count 0 whose element type id is no type id, inside a
\* compound, has been decoded.
C7_Witness ==
    /\ Returning("list_map") /\ Top.length = 0 /\ Top.tag_id \notin 0..10
    /\ ret = Typed("Vec", EmptyOk(<<>>, Top.start + 5))
    /\ Len(stack) > 2

\* C8: the dispatch on the type id is the same at the named-tag site and
\* at the list-element site: for every id in 1..10 both select the same
\* payload parser, with the same value and the same bytes consumed; at
\* both, id 0 is the End tag with no further byte consumed, so that a list
\* of element type id 0 consumes its 5 header bytes only.
C8_SameDispatch ==
    /\ pc = "call" =>
          \A id \in 1..10 :
              list_element(id, input, pos) = named_payload(id, input, pos)
    /\ (pc = "call" /\ cur = "end_elem") =>
          LET r == Leaf(cur, input, pos)
          IN  IsOk(r) /\ r.v = End /\ r.pos = pos
    /\ (Returning("list_map") /\ Top.tag_id = 0) => pos = Top.at

\* What the decoder does keep of C8: for the ids 1..10 the two sites
\* select the same parser.
SameDispatchFromOne ==
    /\ pc = "call" =>
          \A id \in 1..10 :
              list_element(id, input, pos) = named_payload(id, input, pos)
    /\ \A id \in 1..10 : ElemParser(id) = PayloadParser(id)

\* C9: whenever the bytes of a tag name or of a String payload are not
\* valid UTF-8, the decode fails with an error returned to the caller as
\* an error value; no tree is returned.
C9_InvalidEncodingIsAnError ==
    (Done /\ Saw("invalid_utf8")) => Failed

\* C10: on every stream the call returns a root NamedTag or an error, and
\* every iteration of the compound loop, of the list-element loop and of
\* the byte-array and name loops that succeeds consumes at least one byte.
C10_ReturnsTagOrError ==
    /\ Done => outcome.status \in {"Ok", "Err"}
    /\ (pc = "ret" /\ stack # <<>> /\ Top.f \in {"count", "many"} /\ IsOk(ret)) =>
          pos > Top.before

\* What the decoder does keep of C10.  Under FairSpec the call ends: with
\* a tag, an error or a panic.
Terminates == <>Done

\* Every iteration of a loop that succeeds consumes at least one byte, and
\* the position never passes the end of the stream.
LoopsAdvance ==
    /\ (pc = "ret" /\ stack # <<>> /\ Top.f \in {"count", "many"} /\ IsOk(ret)) =>
          pos > Top.before
    /\ pos <= Len(input)

====
